---- MODULE Spec2Model ----
(***************************************************************************)
(* A model of node/router/src/peer/mod.rs: the per-connection Peer record. *)
(*                                                                         *)
(* A Peer handle owns five plain fields (side, listening_addr, version,    *)
(* node_type, status) and three Arc<RwLock<..>> fields (last_seen,         *)
(* block_height, seen_messages).  Cloning a handle copies the plain fields *)
(* and shares the three cells.  Time is an Instant, modelled as a number   *)
(* of clock ticks, TicksPerSec ticks to the second, so that as_secs() is a *)
(* real truncation.  The operations that take a lock are run by tasks in   *)
(* the steps the code makes: call, lock, body (which drops the guard).     *)
(***************************************************************************)
EXTENDS Integers, FiniteSets, Sequences, TLC

VARIABLES
    now,            \* the monotonic clock read by Instant::now(), in ticks
    live,           \* the handles (clones) of the peer that exist
    side,           \* per handle: ConnectionSide
    listening_addr, \* per handle: SocketAddr
    version,        \* per handle: u32
    node_type,      \* per handle: NodeType
    status,         \* per handle: RawStatus
    last_seen,      \* shared cell: Instant
    block_height,   \* shared cell: u32
    seen_messages,  \* shared cell: the HashMap, a set of <<key, Instant>> entries
    lock,           \* per shared cell: the RwLock's writer and readers
    task,           \* per task: where it is in the operation it runs
    ctor,           \* history: the arguments Peer::new was called with, and the clock then
    written,        \* history: the argument of the latest set_last_seen to take effect
    stored_type,    \* history: per handle, the node type most recently stored
    calls           \* history: the number of operations started

vars == << now, live, side, listening_addr, version, node_type, status,
           last_seen, block_height, seen_messages, lock, task,
           ctor, written, stored_type, calls >>

plain  == << live, side, listening_addr, version, node_type, status, stored_type >>
shared == << last_seen, block_height, seen_messages >>

----------------------------------------------------------------------------
(* Bounds and input sets *)

\* clock ticks per second: the resolution at which the Instant is modelled
TicksPerSec == 2
\* the clock stops advancing after this many whole seconds (cache specification)
MaxSecs == 6
\* the clock stops advancing after this many ticks (specifications of the whole record)
MaxTicks == 1

\* the specification of the whole record starts at most this many operations
MaxCalls == 3

\* message_frequency's window, in seconds
Window == 5

Tasks   == {"t1", "t2"}
Handles == {"h1", "h2"}
NoTask   == "none"
NoHandle == "none"
\* Option: None, or Some(x)
None     == << >>
Some(x)  == << x >>

Versions  == {1, 2}
NodeTypes == {"Beacon", "Validator", "Prover", "Client"}
Statuses  == {"Ready", "Syncing"}

\* the argument tuples Peer::new is called with
NewInputs ==
    { <<"Initiator", "10.0.0.1:4130", 1, "Beacon",    "Ready">>,
      <<"Responder", "10.0.0.2:4130", 2, "Validator", "Syncing">> }

\* the (message_id, random_nonce) pairs insert_seen_message is called with
Keys == { <<7, 42>>, <<7, 43>> }

LockNames == {"last_seen", "block_height", "seen_messages"}

----------------------------------------------------------------------------
(* std and parking_lot, by what they do *)

\* Instant::elapsed: Instant::now() - t.  When t is later than the clock the std
\* documents two outcomes: a zero Duration, or (earlier and possibly future
\* versions) a panic.
Panic == None
Elapsed(t) == IF now >= t THEN {Some(now - t)} ELSE {Some(0), Panic}

\* (mutant) the duration is rounded to the nearest second
as_secs_rounded(d) == (2 * d + TicksPerSec) \div (2 * TicksPerSec)

\* Duration::as_secs: the whole seconds of a duration, the fraction dropped
as_secs(d) == d \div TicksPerSec

\* (mutant) the entry is added beside the one the key already has
HashMapPush(m, k, v) == m \cup { <<k, v>> }

\* (mutant) the insert first clears the map
HashMapClearInsert(m, k, v) == { <<k, v>> }

\* (mutant) the entry a key already has is kept: the first write wins
HashMapOrInsert(m, k, v) == IF \E e \in m : e[1] = k THEN m ELSE m \cup { <<k, v>> }

\* HashMap::insert: the entry of key k is replaced, or added when there is none
HashMapInsert(m, k, v) == { e \in m : e[1] /= k } \cup { <<k, v>> }

\* what HashMap::insert returns: the value replaced, if any
HashMapOld(m, k) == IF \E e \in m : e[1] = k
                    THEN Some((CHOOSE e \in m : e[1] = k)[2])
                    ELSE None

HashMapKeys(m) == { e[1] : e \in m }

\* RwLock::read succeeds when no writer holds the lock
CanRead(l) == lock[l].writer = NoTask
\* (mutant) a writer does not wait for the lock to be free
CanWriteUnguarded(l) == TRUE
\* RwLock::write succeeds when nobody holds the lock
CanWrite(l) == lock[l].writer = NoTask /\ lock[l].readers = {}

ReadLocked(l, t)  == [lock EXCEPT ![l].readers = @ \cup {t}]
WriteLocked(l, t) == [lock EXCEPT ![l].writer = t]
Unlocked(l, t)    == [lock EXCEPT ![l].readers = @ \ {t},
                                  ![l].writer = IF @ = t THEN NoTask ELSE @]

\* the locks task t holds
Held(t) == { l \in LockNames : lock[l].writer = t \/ t \in lock[l].readers }

----------------------------------------------------------------------------
(* NodeType's predicates (snarkos_node_executor) *)

NodeTypeIsBeacon(nt)    == nt = "Beacon"
NodeTypeIsValidator(nt) == nt = "Validator"
NodeTypeIsProver(nt)    == nt = "Prover"
NodeTypeIsClient(nt)    == nt = "Client"

----------------------------------------------------------------------------
(* Peer::new and the initial state *)

\* (mutant) last_seen starts at the clock's origin, not at its reading
PeerNewAtOrigin(a_side, a_addr, a_version, a_node_type, a_status, clk) ==
    [ side           |-> a_side,
      listening_addr |-> a_addr,
      last_seen      |-> 0,
      version        |-> a_version,
      node_type      |-> a_node_type,
      status         |-> a_status,
      block_height   |-> 0,
      seen_messages  |-> {} ]

\* the record Peer::new builds from its arguments when the clock reads clk
PeerNew(a_side, a_addr, a_version, a_node_type, a_status, clk) ==
    [ side           |-> a_side,
      listening_addr |-> a_addr,
      last_seen      |-> clk,
      version        |-> a_version,
      node_type      |-> a_node_type,
      status         |-> a_status,
      block_height   |-> 0,
      seen_messages  |-> {} ]

\* a task that runs no operation.  Beside its place (pc), operation, handle,
\* argument and result, a task holds what the operation keeps on its stack: the
\* Instant read (ts), the entries the iterator has yet to yield (todo) and the
\* count so far; at_lock records the clock when the lock was taken.
IdleTask == [ pc |-> "idle", op |-> "none", h |-> NoHandle, arg |-> None,
              ret |-> None, ts |-> None, view |-> {}, todo |-> {}, count |-> 0,
              at_lock |-> None ]

\* a field of the one handle Peer::new returns
OnlyH1(v) == [ h \in {"h1"} |-> v ]
\* a field of handle h copied to the new handle c
Copied(f, h, c) == [ x \in DOMAIN f \cup {c} |-> IF x = c THEN f[h] ELSE f[x] ]

InitWith(inputs, clocks) ==
    \E a \in inputs, clk \in clocks :
        LET p == PeerNew(a[1], a[2], a[3], a[4], a[5], clk) IN
        /\ now = clk
        /\ live = {"h1"}
        /\ side = OnlyH1(p.side)
        /\ listening_addr = OnlyH1(p.listening_addr)
        /\ version = OnlyH1(p.version)
        /\ node_type = OnlyH1(p.node_type)
        /\ status = OnlyH1(p.status)
        /\ last_seen = p.last_seen
        /\ block_height = p.block_height
        /\ seen_messages = p.seen_messages
        /\ lock = [ l \in LockNames |-> [ writer |-> NoTask, readers |-> {} ] ]
        /\ task = [ t \in Tasks |-> IdleTask ]
        /\ ctor = [ side |-> a[1], listening_addr |-> a[2], version |-> a[3],
                    node_type |-> a[4], status |-> a[5], clock |-> clk ]
        /\ written = None
        /\ stored_type = OnlyH1(a[4])
        /\ calls = 0

\* a peer constructed from any of the inputs, at either of two clock readings
Init == InitWith(NewInputs, 0 .. 1)

\* one peer, constructed as the clock starts
CacheInit == InitWith({<<"Responder", "10.0.0.2:4130", 2, "Validator", "Syncing">>}, {0})

----------------------------------------------------------------------------
(* The queries that take no lock *)

\* Peer::ip
ip(h) == listening_addr[h]
\* Peer::node_type
NodeTypeOf(h) == node_type[h]
\* Peer::is_beacon, is_validator, is_prover, is_client
is_beacon(h)    == NodeTypeIsBeacon(node_type[h])
is_validator(h) == NodeTypeIsValidator(node_type[h])
\* (mutant) is_prover asks the validator question
is_prover_as_validator(h) == NodeTypeIsValidator(node_type[h])
is_prover(h)    == NodeTypeIsProver(node_type[h])
is_client(h)    == NodeTypeIsClient(node_type[h])

----------------------------------------------------------------------------
(* The clock, and the operations on a handle's own fields *)

\* the monotonic clock advances by one tick, up to cap
Tick(cap) ==
    /\ now < cap
    /\ now' = now + 1
    /\ UNCHANGED << calls, plain, shared, lock, task, ctor, written >>

\* no task is inside an operation on handle h (what &mut self demands)
Exclusive(h) == \A t \in Tasks : task[t].pc = "idle" \/ task[t].h /= h

\* #[derive(Clone)]: the plain fields are copied, the Arcs are shared
Clone(h, c) ==
    /\ h \in live
    /\ c \in Handles \ live
    /\ live' = live \cup {c}
    /\ side' = Copied(side, h, c)
    /\ listening_addr' = Copied(listening_addr, h, c)
    /\ version' = Copied(version, h, c)
    /\ node_type' = Copied(node_type, h, c)
    /\ status' = Copied(status, h, c)
    /\ stored_type' = Copied(stored_type, h, c)
    /\ UNCHANGED << now, shared, lock, task, ctor, written >>

\* (mutant) the setter also resets the listening address
set_version_moving_addr(h, v) ==
    /\ h \in live
    /\ \A t \in Tasks : task[t].pc = "idle" \/ task[t].h /= h
    /\ version' = [version EXCEPT ![h] = v]
    /\ listening_addr' = [listening_addr EXCEPT ![h] = "0.0.0.0:0"]
    /\ UNCHANGED << now, live, side, node_type, status, stored_type,
                    shared, lock, task, ctor, written >>

\* (mutant) the setter also stores the version as the block height
set_version_as_height(h, v) ==
    /\ h \in live
    /\ \A t \in Tasks : task[t].pc = "idle" \/ task[t].h /= h
    /\ version' = [version EXCEPT ![h] = v]
    /\ block_height' = v
    /\ UNCHANGED << now, live, side, listening_addr, node_type, status, stored_type,
                    last_seen, seen_messages, lock, task, ctor, written >>

\* Peer::set_version
set_version(h, v) ==
    /\ h \in live
    /\ Exclusive(h)
    /\ version' = [version EXCEPT ![h] = v]
    /\ UNCHANGED << now, live, side, listening_addr, node_type, status, stored_type,
                    shared, lock, task, ctor, written >>

\* (mutant) the node type is stored in a cell every handle shares
set_node_type_shared(h, nt) ==
    /\ h \in live
    /\ \A t \in Tasks : task[t].pc = "idle" \/ task[t].h /= h
    /\ node_type' = [x \in DOMAIN node_type |-> nt]
    /\ stored_type' = [x \in DOMAIN stored_type |-> nt]
    /\ UNCHANGED << now, live, side, listening_addr, version, status,
                    shared, lock, task, ctor, written >>

\* Peer::set_node_type
set_node_type(h, nt) ==
    /\ h \in live
    /\ Exclusive(h)
    /\ node_type' = [node_type EXCEPT ![h] = nt]
    /\ stored_type' = [stored_type EXCEPT ![h] = nt]
    /\ UNCHANGED << now, live, side, listening_addr, version, status,
                    shared, lock, task, ctor, written >>

\* (mutant) the setter also overwrites the version
set_status_and_version(h, s) ==
    /\ h \in live
    /\ \A t \in Tasks : task[t].pc = "idle" \/ task[t].h /= h
    /\ status' = [status EXCEPT ![h] = s]
    /\ version' = [version EXCEPT ![h] = 1]
    /\ UNCHANGED << now, live, side, listening_addr, node_type, stored_type,
                    shared, lock, task, ctor, written >>

\* Peer::set_status
set_status(h, s) ==
    /\ h \in live
    /\ Exclusive(h)
    /\ status' = [status EXCEPT ![h] = s]
    /\ UNCHANGED << now, live, side, listening_addr, version, node_type, stored_type,
                    shared, lock, task, ctor, written >>

----------------------------------------------------------------------------
(* The operations that take a lock, step by step *)

Called(t, h, op, arg) ==
    /\ task[t].pc = "idle"
    /\ h \in live
    /\ task' = [task EXCEPT ![t] = [IdleTask EXCEPT !.pc = "lock", !.op = op,
                                                     !.h = h, !.arg = arg]]
    /\ UNCHANGED << now, plain, shared, lock, ctor, written >>

At(t, pc, op) == task[t].pc = pc /\ task[t].op = op

\* Peer::last_seen is called
last_seen_call(t, h) == Called(t, h, "last_seen", None)

\* self.last_seen.read()
last_seen_lock(t) ==
    /\ At(t, "lock", "last_seen")
    /\ CanRead("last_seen")
    /\ lock' = ReadLocked("last_seen", t)
    /\ task' = [task EXCEPT ![t].pc = "held"]
    /\ UNCHANGED << calls, now, plain, shared, ctor, written >>

\* the Instant is copied out and the guard dropped
last_seen_body(t) ==
    /\ At(t, "held", "last_seen")
    /\ task' = [task EXCEPT ![t].pc = "done", ![t].ret = Some(last_seen)]
    /\ lock' = Unlocked("last_seen", t)
    /\ UNCHANGED << calls, now, plain, shared, ctor, written >>

\* the Instants a caller passes to set_last_seen
LastSeenInputs == {0, now, now + 1}

\* Peer::set_last_seen is called
set_last_seen_call(t, h, T) == Called(t, h, "set_last_seen", Some(T))

\* self.last_seen.write()
set_last_seen_lock(t) ==
    /\ At(t, "lock", "set_last_seen")
    /\ CanWrite("last_seen")
    /\ lock' = WriteLocked("last_seen", t)
    /\ task' = [task EXCEPT ![t].pc = "held"]
    /\ UNCHANGED << calls, now, plain, shared, ctor, written >>

\* (mutant) the clock is stored instead of the argument
set_last_seen_body_now(t) ==
    /\ task[t].pc = "held" /\ task[t].op = "set_last_seen"
    /\ last_seen' = now
    /\ written' = task[t].arg
    /\ task' = [task EXCEPT ![t].pc = "done"]
    /\ lock' = Unlocked("last_seen", t)
    /\ UNCHANGED << calls, now, plain, block_height, seen_messages, ctor >>

\* (mutant) an Instant earlier than the stored one is not stored
set_last_seen_body_monotone(t) ==
    /\ task[t].pc = "held" /\ task[t].op = "set_last_seen"
    /\ last_seen' = IF task[t].arg[1] < last_seen THEN last_seen ELSE task[t].arg[1]
    /\ written' = task[t].arg
    /\ task' = [task EXCEPT ![t].pc = "done"]
    /\ lock' = Unlocked("last_seen", t)
    /\ UNCHANGED << calls, now, plain, block_height, seen_messages, ctor >>

\* (mutant) the guard is leaked: the lock stays taken
set_last_seen_body_leak(t) ==
    /\ task[t].pc = "held" /\ task[t].op = "set_last_seen"
    /\ last_seen' = task[t].arg[1]
    /\ written' = task[t].arg
    /\ task' = [task EXCEPT ![t].pc = "done"]
    /\ UNCHANGED << calls, now, plain, block_height, seen_messages, ctor, lock >>

\* the Instant is stored and the guard dropped
set_last_seen_body(t) ==
    /\ At(t, "held", "set_last_seen")
    /\ last_seen' = task[t].arg[1]
    /\ written' = task[t].arg
    /\ task' = [task EXCEPT ![t].pc = "done"]
    /\ lock' = Unlocked("last_seen", t)
    /\ UNCHANGED << calls, now, plain, block_height, seen_messages, ctor >>

\* Peer::insert_seen_message is called
insert_seen_message_call(t, h, message_id, random_nonce) ==
    Called(t, h, "insert_seen_message", <<message_id, random_nonce>>)

\* self.seen_messages.write(): the receiver is evaluated before the arguments
insert_seen_message_lock(t) ==
    /\ At(t, "lock", "insert_seen_message")
    /\ CanWrite("seen_messages")
    /\ lock' = WriteLocked("seen_messages", t)
    /\ task' = [task EXCEPT ![t].pc = "held"]
    /\ UNCHANGED << calls, now, plain, shared, ctor, written >>

\* (mutant) the entry is stamped with an Instant ahead of the clock
insert_seen_message_now_ahead(t) ==
    /\ task[t].pc = "held" /\ task[t].op = "insert_seen_message"
    /\ task' = [task EXCEPT ![t].pc = "insert", ![t].ts = Some(now + 1),
                             ![t].view = seen_messages]
    /\ UNCHANGED << calls, now, plain, shared, lock, ctor, written >>

\* Instant::now() is evaluated, with the guard held
insert_seen_message_now(t) ==
    /\ At(t, "held", "insert_seen_message")
    /\ task' = [task EXCEPT ![t].pc = "insert", ![t].ts = Some(now),
                             ![t].view = seen_messages]
    /\ UNCHANGED << calls, now, plain, shared, lock, ctor, written >>

\* HashMap::insert through the guard, which is then dropped
insert_seen_message_body(t) ==
    /\ At(t, "insert", "insert_seen_message")
    /\ seen_messages' = HashMapInsert(task[t].view, task[t].arg, task[t].ts[1])
    /\ task' = [task EXCEPT ![t].pc = "done", ![t].view = {},
                             ![t].ret = HashMapOld(task[t].view, task[t].arg)]
    /\ lock' = Unlocked("seen_messages", t)
    /\ UNCHANGED << calls, now, plain, last_seen, block_height, ctor, written >>

\* Peer::message_frequency is called
message_frequency_call(t, h) == Called(t, h, "message_frequency", None)

\* self.seen_messages.read().values(): the iterator is over the entries of the map
message_frequency_lock(t) ==
    /\ At(t, "lock", "message_frequency")
    /\ CanRead("seen_messages")
    /\ lock' = ReadLocked("seen_messages", t)
    /\ task' = [task EXCEPT ![t].pc = "held", ![t].todo = seen_messages,
                             ![t].at_lock = Some(now)]
    /\ UNCHANGED << calls, now, plain, shared, ctor, written >>

\* (mutant) the window's last second is left out
RecentStrict(d) == as_secs(d) < Window
\* (mutant) the comparison is the wrong way round
RecentFlipped(d) == as_secs(d) >= Window
\* the filter's test of a Duration: d.as_secs() <= 5
Recent(d) == as_secs(d) <= Window

\* the iterator yields the next entry, in the map's order, and the filter tests
\* t.elapsed().as_secs() <= 5; a panic unwinds, dropping the guard
message_frequency_visit(t) ==
    /\ At(t, "held", "message_frequency")
    /\ \E e \in task[t].todo : \E d \in Elapsed(e[2]) :
          /\ task' = IF d = Panic
                     THEN [task EXCEPT ![t].pc = "panicked", ![t].todo = {}, ![t].count = 0]
                     ELSE [task EXCEPT ![t].todo = @ \ {e},
                                       ![t].count = IF Recent(d[1]) THEN @ + 1 ELSE @]
          /\ lock' = IF d = Panic THEN Unlocked("seen_messages", t) ELSE lock
    /\ UNCHANGED << calls, now, plain, shared, ctor, written >>

\* the iterator is exhausted: count() returns and the guard is dropped
message_frequency_body(t) ==
    /\ At(t, "held", "message_frequency")
    /\ task[t].todo = {}
    /\ task' = [task EXCEPT ![t].pc = "done", ![t].ret = Some(task[t].count), ![t].count = 0]
    /\ lock' = Unlocked("seen_messages", t)
    /\ UNCHANGED << calls, now, plain, shared, ctor, written >>

\* the operation returns to its caller
Return(t) ==
    /\ task[t].pc = "done"
    /\ task' = [task EXCEPT ![t] = IdleTask]
    /\ UNCHANGED << calls, now, plain, shared, lock, ctor, written >>

----------------------------------------------------------------------------
(* Specifications *)

\* an operation is started, one of at most MaxCalls
Counted(A) == calls < MaxCalls /\ A /\ calls' = calls + 1
\* an operation is started, one of any number
Uncounted(A) == A /\ UNCHANGED calls

\* the whole record, used by every task: every run of at most MaxCalls operations
Next ==
    \/ Tick(MaxTicks)
    \/ \E h \in Handles, c \in Handles : Counted(Clone(h, c))
    \/ \E h \in Handles, v \in Versions : Counted(set_version(h, v))
    \/ \E h \in Handles, nt \in NodeTypes : Counted(set_node_type(h, nt))
    \/ \E h \in Handles, st \in Statuses : Counted(set_status(h, st))
    \/ \E t \in Tasks, h \in Handles : Counted(last_seen_call(t, h))
    \/ \E t \in Tasks, h \in Handles, T \in LastSeenInputs :
          Counted(set_last_seen_call(t, h, T))
    \/ \E t \in Tasks, h \in Handles, k \in Keys :
          Counted(insert_seen_message_call(t, h, k[1], k[2]))
    \/ \E t \in Tasks, h \in Handles : Counted(message_frequency_call(t, h))
    \/ \E t \in Tasks : last_seen_lock(t)
    \/ \E t \in Tasks : last_seen_body(t)
    \/ \E t \in Tasks : set_last_seen_lock(t)
    \/ \E t \in Tasks : set_last_seen_body(t)
    \/ \E t \in Tasks : insert_seen_message_lock(t)
    \/ \E t \in Tasks : insert_seen_message_now(t)
    \/ \E t \in Tasks : insert_seen_message_body(t)
    \/ \E t \in Tasks : message_frequency_lock(t)
    \/ \E t \in Tasks : message_frequency_visit(t)
    \/ \E t \in Tasks : message_frequency_body(t)
    \/ \E t \in Tasks : Return(t)

Spec == Init /\ [][Next]_vars

\* the replay cache used by one task, over a stretch of time longer than the window
CacheNext ==
    \/ Tick(MaxSecs * TicksPerSec + 1)
    \/ \E k \in Keys : Uncounted(insert_seen_message_call("t1", "h1", k[1], k[2]))
    \/ Uncounted(message_frequency_call("t1", "h1"))
    \/ insert_seen_message_lock("t1")
    \/ insert_seen_message_now("t1")
    \/ insert_seen_message_body("t1")
    \/ message_frequency_lock("t1")
    \/ message_frequency_visit("t1")
    \/ message_frequency_body("t1")
    \/ Return("t1")

CacheSpec == CacheInit /\ [][CacheNext]_vars

\* the step task t takes to acquire its lock
LockStep(t) ==
    \/ last_seen_lock(t)
    \/ set_last_seen_lock(t)
    \/ insert_seen_message_lock(t)
    \/ message_frequency_lock(t)

\* the steps task t takes once it holds its lock, and its return
RunStep(t) ==
    \/ last_seen_body(t)
    \/ set_last_seen_body(t)
    \/ insert_seen_message_now(t)
    \/ insert_seen_message_body(t)
    \/ message_frequency_visit(t)
    \/ message_frequency_body(t)
    \/ Return(t)

\* the locked operations, started by the tasks without limit
FairNext ==
    \/ Tick(MaxTicks)
    \/ \E t \in Tasks : Uncounted(last_seen_call(t, "h1"))
    \/ \E t \in Tasks, T \in LastSeenInputs : Uncounted(set_last_seen_call(t, "h1", T))
    \/ \E t \in Tasks, k \in Keys : Uncounted(insert_seen_message_call(t, "h1", k[1], k[2]))
    \/ \E t \in Tasks : Uncounted(message_frequency_call(t, "h1"))
    \/ \E t \in Tasks : LockStep(t)
    \/ \E t \in Tasks : RunStep(t)

\* The scheduler runs every task that can run (weak fairness of RunStep), and
\* parking_lot's RwLock hands the lock to a waiter in the end, however often
\* others take it in between (strong fairness of LockStep).
Fairness ==
    \A t \in Tasks : WF_vars(RunStep(t)) /\ SF_vars(LockStep(t))

FairSpec == CacheInit /\ [][FairNext]_vars /\ Fairness

----------------------------------------------------------------------------
(* Properties of the replay cache (CacheSpec) *)

\* the entries of m whose age at clock reading c, in whole seconds, is within the window
WithinWindow(m, c) == { e \in m : (c - e[2]) \div TicksPerSec <= Window }

\* C1, as first stated: message_frequency() returns exactly the number of
\* entries whose age (the clock minus the stored timestamp) is at most 5
\* seconds; an entry older than 5 seconds is never counted.  (Stated for a call
\* during which the clock does not advance.)
C1_ExactAge ==
    [][ \A t \in Tasks :
          message_frequency_body(t) /\ task[t].at_lock = Some(now)
          => task'[t].ret =
                Some(Cardinality({ e \in seen_messages :
                                     now - e[2] <= Window * TicksPerSec })) ]_vars

\* C1, amended: message_frequency() returns the number of entries whose age in
\* whole seconds, the fraction dropped, is at most 5, the age of each entry
\* being taken when the scan reaches it: the result lies between that number
\* at the clock reading of the return and that number at the clock reading of
\* the lock, and is that number exactly when the clock stood still in between.
C1_WholeSecondAge ==
    [][ \A t \in Tasks :
          message_frequency_body(t)
          => /\ task'[t].ret /= None
             /\ task'[t].ret[1] >= Cardinality(WithinWindow(seen_messages, now))
             /\ task'[t].ret[1] <=
                    Cardinality(WithinWindow(seen_messages, task[t].at_lock[1])) ]_vars

\* C1's case: a call during which the clock stood still has returned 1 from a
\* cache that holds one entry older than 6 seconds and one entry older than 5
\* seconds but younger than 6
C1_Witness ==
    \E t \in Tasks :
        /\ At(t, "done", "message_frequency")
        /\ task[t].at_lock = Some(now)
        /\ task[t].ret = Some(1)
        /\ \E e \in seen_messages : now - e[2] >= (Window + 1) * TicksPerSec
        /\ \E e \in seen_messages : /\ now - e[2] > Window * TicksPerSec
                                    /\ now - e[2] < (Window + 1) * TicksPerSec

\* the cache holds at most one entry per (message_id, random_nonce) pair
UniqueKeys == \A e1, e2 \in seen_messages : e1[1] = e2[1] => e1 = e2

\* C2: insert_seen_message on a key already in the cache leaves the number of
\* entries unchanged and leaves that key with the one timestamp the call read
\* from the clock; the cache never holds two entries for one pair.
C2_Overwrite ==
    /\ []UniqueKeys
    /\ [][ \A t \in Tasks :
             insert_seen_message_body(t)
             => /\ task[t].arg \in HashMapKeys(seen_messages)
                   => Cardinality(seen_messages') = Cardinality(seen_messages)
                /\ { e \in seen_messages' : e[1] = task[t].arg }
                      = { << task[t].arg, task[t].ts[1] >> }
                /\ { e \in seen_messages' : e[1] /= task[t].arg }
                      = { e \in seen_messages : e[1] /= task[t].arg } ]_vars

\* C2's case: an insert has replaced an older timestamp of its key by a later
\* one, in a cache that holds another key too
C2_Witness ==
    \E t \in Tasks :
        /\ At(t, "done", "insert_seen_message")
        /\ task[t].ret /= None
        /\ \E e \in seen_messages : e[1] = task[t].arg /\ e[2] > task[t].ret[1]
        /\ Cardinality(seen_messages) = Cardinality(Keys)

\* C3: when every entry of the cache was inserted at one clock reading t0, a
\* message_frequency() that runs at t0 returns the number of pairs inserted; a
\* message_frequency() that starts 6 seconds or more after the entries were
\* inserted returns 0.
C3_InsertThenExpire ==
    [][ \A t \in Tasks :
          message_frequency_body(t)
          => /\ (task[t].at_lock = Some(now) /\ \A e \in seen_messages : e[2] = now)
                => task'[t].ret = Some(Cardinality(HashMapKeys(seen_messages)))
             /\ (\A e \in seen_messages :
                    task[t].at_lock[1] - e[2] >= (Window + 1) * TicksPerSec)
                => task'[t].ret = Some(0) ]_vars

\* C3's case: every pair was inserted at one clock reading, and a call made 6
\* seconds or more later has returned 0
C3_Witness ==
    \E t \in Tasks, t0 \in 0 .. now :
        /\ At(t, "done", "message_frequency")
        /\ task[t].ret = Some(0)
        /\ HashMapKeys(seen_messages) = Keys
        /\ \A e \in seen_messages : e[2] = t0
        /\ task[t].at_lock[1] - t0 >= (Window + 1) * TicksPerSec

----------------------------------------------------------------------------
(* Properties of the whole record (Spec) *)

\* C4: when every task has finished an insert_seen_message and their keys are
\* pairwise distinct, every one of the keys is in seen_messages.
C4_NoLostInsert ==
    ( /\ \A t \in Tasks : At(t, "done", "insert_seen_message")
      /\ \A t, u \in Tasks : t /= u => task[t].arg /= task[u].arg )
    => { task[t].arg : t \in Tasks } \subseteq HashMapKeys(seen_messages)

\* C4's case: every task has finished its insert, of a key of its own, and no
\* other operation was started
C4_Witness ==
    /\ \A t \in Tasks : At(t, "done", "insert_seen_message")
    /\ \A t, u \in Tasks : t /= u => task[t].arg /= task[u].arg
    /\ calls = Cardinality(Tasks)
    /\ Cardinality(seen_messages) = Cardinality(Tasks)

\* C5: last_seen() returns the argument of the latest set_last_seen to have
\* taken effect.
C5_RoundTrip ==
    [][ \A t \in Tasks :
          last_seen_body(t) /\ written /= None => task'[t].ret = written ]_vars

\* C5's case: a last_seen() has returned an Instant that a set_last_seen stored,
\* other than the one the record was constructed with
C5_Witness ==
    \E t \in Tasks :
        /\ At(t, "done", "last_seen")
        /\ written /= None
        /\ task[t].ret = written
        /\ written /= Some(ctor.clock)

\* C6: until an operation is started the record is as Peer::new built it: block
\* height 0, last_seen the clock's reading at construction, an empty cache, and
\* the side, address, version, node type and status of the call; a
\* message_frequency() that is the first operation returns 0.
C6_Defaults ==
    /\ calls = 0
       => /\ block_height = 0
          /\ last_seen = ctor.clock
          /\ seen_messages = {}
          /\ live = {"h1"}
          /\ side["h1"] = ctor.side
          /\ listening_addr["h1"] = ctor.listening_addr
          /\ version["h1"] = ctor.version
          /\ node_type["h1"] = ctor.node_type
          /\ status["h1"] = ctor.status
    /\ \A t \in Tasks :
          calls = 1 /\ At(t, "done", "message_frequency") => task[t].ret = Some(0)

\* C6's case: a record constructed when the clock read 1, on which the only
\* operation so far, a message_frequency(), has returned
C6_Witness ==
    \E t \in Tasks :
        /\ calls = 1
        /\ At(t, "done", "message_frequency")
        /\ ctor.clock = 1
        /\ last_seen = 1

\* C7: through every handle, ip() is the address and the side is the side that
\* Peer::new was given.
C7_IdentityFixed ==
    \A h \in live : ip(h) = ctor.listening_addr /\ side[h] = ctor.side

\* C7's case: after a clone, a set_version and an insert_seen_message
C7_Witness ==
    /\ Cardinality(live) = 2
    /\ \E h \in live : version[h] /= ctor.version
    /\ seen_messages /= {}
    /\ \A h \in live : ip(h) = ctor.listening_addr

\* C8: through every handle exactly one of is_beacon(), is_validator(),
\* is_prover(), is_client() is true: the one of the node type most recently
\* stored in the handle.
C8_OneClassification ==
    \A h \in live :
        /\ is_beacon(h)    <=> stored_type[h] = "Beacon"
        /\ is_validator(h) <=> stored_type[h] = "Validator"
        /\ is_prover(h)    <=> stored_type[h] = "Prover"
        /\ is_client(h)    <=> stored_type[h] = "Client"
        /\ Cardinality({ p \in { <<1, is_beacon(h)>>, <<2, is_validator(h)>>,
                                 <<3, is_prover(h)>>, <<4, is_client(h)>> } : p[2] }) = 1

\* C8's case: set_node_type has made a prover of a peer constructed as something else
C8_Witness ==
    \E h \in live :
        /\ stored_type[h] = "Prover"
        /\ ctor.node_type /= "Prover"
        /\ is_prover(h)
        /\ ~ is_beacon(h) /\ ~ is_validator(h) /\ ~ is_client(h)

\* no task is in the state a panic leaves it in
NoPanic == \A t \in Tasks : task[t].pc /= "panicked"

\* C10: no operation ends in a panic; a finished insert_seen_message has its
\* key in the cache, and a finished last_seen() or message_frequency() has
\* returned a value.
C10_Infallible ==
    /\ NoPanic
    /\ \A t \in Tasks :
          /\ At(t, "done", "insert_seen_message")
                => task[t].arg \in HashMapKeys(seen_messages)
          /\ At(t, "done", "last_seen") => task[t].ret /= None
          /\ At(t, "done", "message_frequency") => task[t].ret /= None

\* C10's case: one task's message_frequency() has counted the entry another
\* task's insert_seen_message stored
C10_Witness ==
    \E t, u \in Tasks :
        /\ t /= u
        /\ At(t, "done", "message_frequency")
        /\ task[t].ret /= None
        /\ task[t].ret[1] >= 1
        /\ At(u, "done", "insert_seen_message")

----------------------------------------------------------------------------
(* Properties of the locking (FairSpec) *)

\* a task holds at most one lock, and none while it waits for one or is
\* outside an operation
NoNestedLock ==
    \A t \in Tasks :
        /\ Cardinality(Held(t)) <= 1
        /\ task[t].pc \in {"idle", "lock", "done", "panicked"} => Held(t) = {}

\* C9: no task ever holds two locks, or holds one while it waits for another or
\* after it has returned; and every operation that was started completes.
C9_NoDeadlock ==
    /\ []NoNestedLock
    /\ \A t \in Tasks : (task[t].pc = "lock") ~> (task[t].pc = "done")

\* C9's case: one task waits for the lock that another holds in the middle of
\* its operation
C9_Witness ==
    \E t, u \in Tasks :
        /\ task[t].pc = "insert"
        /\ At(u, "lock", "message_frequency")
        /\ Held(u) = {}

----------------------------------------------------------------------------
(* The cache over time (CacheSpec) *)

\* C11: no step removes a key from seen_messages, and none lowers the number of
\* its entries: an entry is added or has its timestamp overwritten, and an
\* entry that has left the window stays stored.
C11_GrowOnly ==
    [][ /\ HashMapKeys(seen_messages) \subseteq HashMapKeys(seen_messages')
        /\ Cardinality(seen_messages') >= Cardinality(seen_messages) ]_vars

\* C11's case: an insert has finished in a cache that still holds the entry of
\* another pair, 6 seconds old or older
C11_Witness ==
    \E t \in Tasks :
        /\ At(t, "done", "insert_seen_message")
        /\ \E e \in seen_messages :
              /\ e[1] /= task[t].arg
              /\ task[t].ts[1] - e[2] >= (Window + 1) * TicksPerSec

----------------------------------------------------------------------------
(* Frames and the liveness timestamp (Spec) *)

\* the fields of handle h other than field f are as they were
OwnFieldsKept(h, f) ==
    /\ f /= "version" => version'[h] = version[h]
    /\ f /= "node_type" => node_type'[h] = node_type[h]
    /\ f /= "status" => status'[h] = status[h]
    /\ side'[h] = side[h]
    /\ listening_addr'[h] = listening_addr[h]

\* every field of every handle is as it was
PlainKept == UNCHANGED << live, side, listening_addr, version, node_type, status >>

\* C12: set_last_seen changes only last_seen; insert_seen_message changes only
\* seen_messages, and in it only the entry of its key; set_version,
\* set_node_type and set_status change only their field of their handle; the
\* steps of last_seen() and message_frequency() change no field, nor does a
\* call, a writer's wait for its lock, its reading of the clock or a return.
C12_Frames ==
    [][ /\ \A t \in Tasks :
              task'[t] /= task[t]
              =>
              /\ set_last_seen_body(t)
                 => PlainKept /\ UNCHANGED << block_height, seen_messages >>
              /\ insert_seen_message_body(t)
                 => /\ PlainKept /\ UNCHANGED << block_height, last_seen >>
                    /\ { e \in seen_messages' : e[1] /= task[t].arg }
                          = { e \in seen_messages : e[1] /= task[t].arg }
              /\ ( \/ task[t].op \in {"last_seen", "message_frequency"}
                   \/ task[t].pc \in {"idle", "lock", "done"}
                   \/ At(t, "held", "insert_seen_message") )
                 => PlainKept /\ UNCHANGED shared
        /\ task' = task /\ now' = now
           => \A h \in Handles :
                 /\ (\E v \in Versions : set_version(h, v))
                    => /\ UNCHANGED << live, shared >>
                       /\ \A x \in live :
                             OwnFieldsKept(x, IF x = h THEN "version" ELSE "none")
                 /\ (\E nt \in NodeTypes : set_node_type(h, nt))
                    => /\ UNCHANGED << live, shared >>
                       /\ \A x \in live :
                             OwnFieldsKept(x, IF x = h THEN "node_type" ELSE "none")
                 /\ (\E st \in Statuses : set_status(h, st))
                    => /\ UNCHANGED << live, shared >>
                       /\ \A x \in live :
                             OwnFieldsKept(x, IF x = h THEN "status" ELSE "none") ]_vars

\* C12's case: set_status, set_last_seen and insert_seen_message have each
\* changed their field, and the other fields are as Peer::new set them
C12_Witness ==
    /\ status["h1"] /= ctor.status
    /\ written /= None /\ last_seen /= ctor.clock
    /\ seen_messages /= {}
    /\ version["h1"] = ctor.version
    /\ node_type["h1"] = ctor.node_type
    /\ block_height = 0

\* C13: a set_last_seen(T) with T earlier than the stored Instant stores T:
\* last_seen goes back.
C13_NotMonotone ==
    [][ \A t \in Tasks :
          set_last_seen_body(t) /\ task[t].arg[1] < last_seen
          => last_seen' = task[t].arg[1] /\ last_seen' < last_seen ]_vars

\* C13's case: last_seen() has returned an Instant earlier than the one the
\* record was constructed with, which a set_last_seen stored
C13_Witness ==
    \E t \in Tasks :
        /\ At(t, "done", "last_seen")
        /\ task[t].ret = Some(last_seen)
        /\ written = Some(last_seen)
        /\ last_seen < ctor.clock

----------------------------------------------------------------------------
(* Racing inserts of one pair (Spec) *)

\* the entries seen_messages holds for key k
EntriesOf(k) == { e \in seen_messages : e[1] = k }

\* the original reading of C14: an insert reads the clock before it acquires
\* the write lock, so an insert that holds the lock has its timestamp already
C14_ClockBeforeLock ==
    \A t \in Tasks :
        task[t].op = "insert_seen_message" /\ "seen_messages" \in Held(t)
        => task[t].ts /= None

\* C14: when two tasks have both finished insert_seen_message of the same pair,
\* the cache holds exactly one entry for it, whose timestamp is the clock value
\* one of the two calls read; the clock is read under the write lock only, so
\* that value is the latest of the values read, the one of the call that took
\* the lock last.
C14_SameKeyRace ==
    /\ \A t \in Tasks :
          task[t].op = "insert_seen_message" /\ task[t].ts /= None
          => "seen_messages" \in Held(t) \/ task[t].pc = "done"
    /\ \A t \in Tasks : \A u \in Tasks \ {t} :
          /\ At(t, "done", "insert_seen_message")
          /\ At(u, "done", "insert_seen_message")
          /\ task[t].arg = task[u].arg
          => /\ Cardinality(EntriesOf(task[t].arg)) = 1
             /\ \A e \in EntriesOf(task[t].arg) :
                   /\ e[2] \in { task[t].ts[1], task[u].ts[1] }
                   /\ e[2] >= task[t].ts[1] /\ e[2] >= task[u].ts[1]

\* C14's case: two inserts of one pair have finished with different clock
\* values, and the one entry kept carries the later value
C14_Witness ==
    \E t \in Tasks : \E u \in Tasks \ {t} :
        /\ At(t, "done", "insert_seen_message")
        /\ At(u, "done", "insert_seen_message")
        /\ task[t].arg = task[u].arg
        /\ task[t].ts[1] < task[u].ts[1]
        /\ EntriesOf(task[t].arg) = { << task[u].arg, task[u].ts[1] >> }

----------------------------------------------------------------------------
(* Handles of one record (Spec) *)

\* C15: a clone starts with its origin's plain fields and adds no cell; what
\* set_last_seen and insert_seen_message store through one handle is what
\* last_seen() and message_frequency() read through any handle; set_version,
\* set_node_type and set_status through one handle leave the fields of every
\* other handle as they were, so two handles can differ on is_validator().
C15_SharedAndOwn ==
    [][ /\ live' /= live
           => \A h \in Handles : \A c \in Handles :
                 Clone(h, c)
                 => /\ version'[c] = version[h] /\ node_type'[c] = node_type[h]
                    /\ status'[c] = status[h] /\ side'[c] = side[h]
                    /\ listening_addr'[c] = listening_addr[h]
                    /\ UNCHANGED shared
        /\ task' = task /\ now' = now /\ live' = live
           => \A h \in Handles : \A x \in live \ {h} :
                 /\ (\E nt \in NodeTypes : set_node_type(h, nt))
                    => node_type'[x] = node_type[x]
                 /\ (\E v \in Versions : set_version(h, v))
                    => version'[x] = version[x]
                 /\ (\E st \in Statuses : set_status(h, st))
                    => status'[x] = status[x]
        /\ \A t \in Tasks :
              task'[t] /= task[t] /\ task[t].h \in live
              =>
              /\ set_last_seen_body(t) => last_seen' = task[t].arg[1]
              /\ last_seen_body(t) => task'[t].ret = Some(last_seen)
              /\ insert_seen_message_body(t)
                 => task[t].arg \in HashMapKeys(seen_messages')
              /\ message_frequency_lock(t) => task'[t].todo = seen_messages ]_vars

\* C15's case: two handles of one record differ on is_validator(), and an
\* insert made through the second handle is in the cache both read
C15_Witness ==
    /\ live = Handles
    /\ is_validator("h1") /= is_validator("h2")
    /\ \E t \in Tasks :
          /\ At(t, "done", "insert_seen_message")
          /\ task[t].h = "h2"
          /\ task[t].arg \in HashMapKeys(seen_messages)

\* C16: the block height is 0 in every reachable state, and no operation takes
\* the lock that guards it.
C16_HeightZero ==
    /\ block_height = 0
    /\ lock["block_height"].writer = NoTask
    /\ lock["block_height"].readers = {}

\* C16's case: set_version, set_last_seen and insert_seen_message have all
\* taken effect, and the block height is still the 0 of Peer::new
C16_Witness ==
    /\ \E h \in live : version[h] /= ctor.version
    /\ written /= None
    /\ seen_messages /= {}
    /\ block_height = 0

----------------------------------------------------------------------------
(* What message_frequency() counts (CacheSpec) *)

\* C17: message_frequency() counts pairs, not calls: its result is at most the
\* number of entries, which is the number of distinct pairs stored and at most
\* the number of distinct pairs there are; an insert of a pair whose entry is
\* inside the window leaves the number of entries inside the window as it was,
\* and an insert of a pair whose entry has left the window raises it by one.
C17_CountsPairs ==
    [][ /\ Cardinality(seen_messages) = Cardinality(HashMapKeys(seen_messages))
        /\ Cardinality(HashMapKeys(seen_messages)) <= Cardinality(Keys)
        /\ \A t \in Tasks :
              message_frequency_body(t)
              => task'[t].ret[1] <= Cardinality(HashMapKeys(seen_messages))
        /\ \A t \in Tasks :
              insert_seen_message_body(t) /\ task[t].arg \in HashMapKeys(seen_messages)
              => LET old == EntriesOf(task[t].arg)
                     new == { << task[t].arg, task[t].ts[1] >> }
                     before == Cardinality(WithinWindow(seen_messages, now))
                     after == Cardinality(WithinWindow(seen_messages', now))
                 IN  /\ WithinWindow(old, now) /= {} => after = before
                     /\ WithinWindow(old, now) = {} /\ WithinWindow(new, now) /= {}
                        => after = before + 1 ]_vars

\* C17's case: an insert has replaced an entry of its pair that was 6 seconds
\* old or older, and the pair is inside the window again
C17_Witness ==
    \E t \in Tasks :
        /\ At(t, "done", "insert_seen_message")
        /\ task[t].ret /= None
        /\ task[t].ts[1] - task[t].ret[1] >= (Window + 1) * TicksPerSec
        /\ WithinWindow(EntriesOf(task[t].arg), now) /= {}

\* C18: the scan counts an entry exactly when its age at the test is below 6
\* seconds: the age is cut to whole seconds before it is compared with 5.
C18_BelowSixSeconds ==
    [][ \A t \in Tasks :
          message_frequency_visit(t) /\ task'[t].pc = "held"
          => \A e \in task[t].todo \ task'[t].todo :
                (task'[t].count = task[t].count + 1)
                   <=> (now - e[2] < (Window + 1) * TicksPerSec) ]_vars

\* C18's case: a call during which the clock stood still has counted an entry
\* aged between 5 and 6 seconds and has not counted one aged exactly 6 seconds
C18_Witness ==
    \E t \in Tasks :
        /\ At(t, "done", "message_frequency")
        /\ task[t].at_lock = Some(now)
        /\ task[t].ret = Some(1)
        /\ Cardinality(seen_messages) = 2
        /\ \E e \in seen_messages : now - e[2] = (Window + 1) * TicksPerSec
        /\ \E e \in seen_messages :
              /\ now - e[2] > Window * TicksPerSec
              /\ now - e[2] < (Window + 1) * TicksPerSec

====
